---- MODULE Spec2Model ----
(***************************************************************************)
(* Model of the Polymarket MCP server (polymarket_mcp_server/server.py):   *)
(* the tool operations, the resource projections and the request executor  *)
(* make_api_request, as one invocation that suspends at its network call.  *)
(***************************************************************************)
EXTENDS Integers, Sequences, FiniteSets, TLC

(***************************************************************************)
(* Bounds of the model.                                                    *)
(***************************************************************************)
\* At most this many filters are supplied freely in one call of get_markets
\* or get_events; the filters are handled one by one, independently, except
\* within the groups of dependent parameters, whose combinations are all
\* enumerated on top of that (see ArgSpace).
MaxSupplied == 1
\* Longest list passed for a list-valued filter.
MaxList == 2
\* Invocations the transport dispatches concurrently.
NumTasks == 2

(***************************************************************************)
(* Python values, tagged with their type.                                  *)
(* Every record of the model lists its fields in the order in which TLC    *)
(* keeps them, so that a value is never reordered after it is built.       *)
(***************************************************************************)
PyNone == [t |-> "none"]
PyInt(n) == [t |-> "int", v |-> n]
PyBool(b) == [t |-> "bool", v |-> b]
PyStr(s) == [t |-> "str", v |-> s]
PyList(items) == [t |-> "list", v |-> items]
\* A dict keeps insertion order: a sequence of entries with distinct keys.
PyDict(entries) == [t |-> "dict", v |-> entries]
Entry(key, val) == [v |-> val, k |-> key]

\* Python truthiness, as tested by "if x:".
Truthy(x) ==
    CASE x.t = "none" -> FALSE
      [] x.t = "int" -> x.v # 0
      [] x.t = "bool" -> x.v
      [] x.t = "str" -> x.v # ""
      [] x.t = "list" -> Len(x.v) > 0
      [] x.t = "dict" -> Len(x.v) > 0

Digits == <<"0", "1", "2", "3", "4", "5", "6", "7", "8", "9">>

RECURSIVE IntToStr(_)
\* str(n) of a non-negative int.
IntToStr(n) ==
    IF n < 10 THEN Digits[n + 1]
    ELSE IntToStr(n \div 10) \o Digits[(n % 10) + 1]

\* str.lower() on the status strings the model passes.
Lower(s) ==
    CASE s = "OPEN" -> "open"
      [] s = "Closed" -> "closed"
      [] OTHER -> s

RECURSIVE rstrip(_)
\* s.rstrip('/')
rstrip(s) ==
    IF Len(s) > 0 /\ SubSeq(s, Len(s), Len(s)) = "/"
    THEN rstrip(SubSeq(s, 1, Len(s) - 1))
    ELSE s

RECURSIVE lstrip(_)
\* s.lstrip('/')
lstrip(s) ==
    IF Len(s) > 0 /\ SubSeq(s, 1, 1) = "/"
    THEN lstrip(SubSeq(s, 2, Len(s)))
    ELSE s

(***************************************************************************)
(* dict operations on a parameter dict (a sequence of entries).            *)
(***************************************************************************)
HasKey(entries, key) == \E i \in 1..Len(entries) : entries[i].k = key

Get(entries, key) ==
    entries[CHOOSE i \in 1..Len(entries) : entries[i].k = key].v

Keys(entries) == {entries[i].k : i \in 1..Len(entries)}

\* params[key] = val
Put(entries, key, val) ==
    IF HasKey(entries, key)
    THEN [i \in 1..Len(entries) |->
            IF entries[i].k = key THEN Entry(key, val) ELSE entries[i]]
    ELSE Append(entries, Entry(key, val))

\* Mutant: params[key] = [item], which keeps the last element only.
SetDefaultAssign(entries, key, item) == Put(entries, key, PyList(<<item>>))

\* params.setdefault(key, []).append(item)
SetDefaultAppend(entries, key, item) ==
    IF HasKey(entries, key)
    THEN Put(entries, key, PyList(Append(Get(entries, key).v, item)))
    ELSE Append(entries, Entry(key, PyList(<<item>>)))

RECURSIVE AppendEach(_, _, _)
\* for item in items: params.setdefault(key, []).append(item)
AppendEach(entries, key, items) ==
    IF items = <<>> THEN entries
    ELSE AppendEach(SetDefaultAppend(entries, key, Head(items)), key, Tail(items))

\* Mutant: the "is not None" test is left out.
PutAlways(entries, key, x) == Put(entries, key, x)

\* if x is not None: params[key] = x
PutIfNotNone(entries, key, x) ==
    IF x.t # "none" THEN Put(entries, key, x) ELSE entries

\* if x: params[key] = x
PutIfTruthy(entries, key, x) ==
    IF Truthy(x) THEN Put(entries, key, x) ELSE entries

\* if x is not None: a list is appended element by element, a scalar is set
PutScalarOrList(entries, key, x) ==
    IF x.t = "none" THEN entries
    ELSE IF x.t = "list" THEN AppendEach(entries, key, x.v)
    ELSE Put(entries, key, x)

(***************************************************************************)
(* get_markets: the query parameters built from the arguments.             *)
(***************************************************************************)
\* Mutant: "closed" sets the archived flag.
ApplyStatusShifted(a) ==
    IF Truthy(a.status)
    THEN IF Lower(a.status.v) = "open"
         THEN [a EXCEPT !.active = PyBool(TRUE)]
         ELSE IF Lower(a.status.v) = "closed"
         THEN [a EXCEPT !.archived = PyBool(TRUE)]
         ELSE IF Lower(a.status.v) = "archived"
         THEN [a EXCEPT !.archived = PyBool(TRUE)]
         ELSE a
    ELSE a

\* Mutant: status sets a flag only when the caller did not pass it.
ApplyStatusIfUnset(a) ==
    IF Truthy(a.status)
    THEN IF Lower(a.status.v) = "open" /\ a.active.t = "none"
         THEN [a EXCEPT !.active = PyBool(TRUE)]
         ELSE IF Lower(a.status.v) = "closed" /\ a.closed.t = "none"
         THEN [a EXCEPT !.closed = PyBool(TRUE)]
         ELSE IF Lower(a.status.v) = "archived" /\ a.archived.t = "none"
         THEN [a EXCEPT !.archived = PyBool(TRUE)]
         ELSE a
    ELSE a

\* The legacy status parameter rebinds the local active / closed / archived.
ApplyStatus(a) ==
    IF Truthy(a.status)
    THEN IF Lower(a.status.v) = "open"
         THEN [a EXCEPT !.active = PyBool(TRUE)]
         ELSE IF Lower(a.status.v) = "closed"
         THEN [a EXCEPT !.closed = PyBool(TRUE)]
         ELSE IF Lower(a.status.v) = "archived"
         THEN [a EXCEPT !.archived = PyBool(TRUE)]
         ELSE a
    ELSE a

\* Mutant: related_tags is not tied to tag_id.
MarketsTagFilterUnconditional(entries, a) ==
    LET p1 == PutIfNotNone(entries, "tag_id", a.tag_id)
    IN  PutIfNotNone(p1, "related_tags", a.related_tags)

\* if tag_id is not None: ...; if related_tags is not None and tag_id is not None: ...
MarketsTagFilter(entries, a) ==
    LET p1 == PutIfNotNone(entries, "tag_id", a.tag_id)
    IN  IF a.related_tags.t # "none" /\ a.tag_id.t # "none"
        THEN Put(p1, "related_tags", a.related_tags)
        ELSE p1

MarketsParams(args) ==
    LET a == ApplyStatus(args)
        p1 == PutIfNotNone(<<>>, "limit", a.limit)
        p2 == PutIfNotNone(p1, "offset", a.offset)
        p3 == PutIfTruthy(p2, "order", a.order)
        p4 == PutIfNotNone(p3, "ascending", a.ascending)
        p5 == PutScalarOrList(p4, "id", a.id)
        p6 == PutScalarOrList(p5, "slug", a.slug)
        p7 == PutIfNotNone(p6, "archived", a.archived)
        p8 == PutIfNotNone(p7, "active", a.active)
        p9 == PutIfNotNone(p8, "closed", a.closed)
        p10 == PutScalarOrList(p9, "clob_token_ids", a.clob_token_ids)
        p11 == PutScalarOrList(p10, "condition_ids", a.condition_ids)
        p12 == PutIfNotNone(p11, "liquidity_num_min", a.liquidity_num_min)
        p13 == PutIfNotNone(p12, "liquidity_num_max", a.liquidity_num_max)
        p14 == PutIfNotNone(p13, "volume_num_min", a.volume_num_min)
        p15 == PutIfNotNone(p14, "volume_num_max", a.volume_num_max)
        p16 == PutIfTruthy(p15, "start_date_min", a.start_date_min)
        p17 == PutIfTruthy(p16, "start_date_max", a.start_date_max)
        p18 == PutIfTruthy(p17, "end_date_min", a.end_date_min)
        p19 == PutIfTruthy(p18, "end_date_max", a.end_date_max)
    IN  MarketsTagFilter(p19, a)

(***************************************************************************)
(* get_events: the query parameters built from the arguments.              *)
(***************************************************************************)
\* Mutant: three independent "if"s instead of if / elif / elif.
EventsTagFilterNoPriority(entries, a) ==
    LET p1 == PutIfTruthy(entries, "tag", a.tag)
        p2 == PutIfNotNone(p1, "tag_id", a.tag_id)
        p3 == IF a.related_tags.t # "none" /\ a.tag_id.t # "none"
              THEN Put(p2, "related_tags", a.related_tags)
              ELSE p2
    IN  PutIfTruthy(p3, "tag_slug", a.tag_slug)

\* Tag filter priority: tag > tag_id > tag_slug (if / elif / elif).
EventsTagFilter(entries, a) ==
    IF Truthy(a.tag)
    THEN Put(entries, "tag", a.tag)
    ELSE IF a.tag_id.t # "none"
    THEN LET p1 == Put(entries, "tag_id", a.tag_id)
         IN  IF a.related_tags.t # "none"
             THEN Put(p1, "related_tags", a.related_tags)
             ELSE p1
    ELSE IF Truthy(a.tag_slug)
    THEN Put(entries, "tag_slug", a.tag_slug)
    ELSE entries

EventsParams(a) ==
    LET p1 == PutIfNotNone(<<>>, "limit", a.limit)
        p2 == PutIfNotNone(p1, "offset", a.offset)
        p3 == PutIfTruthy(p2, "order", a.order)
        p4 == PutIfNotNone(p3, "ascending", a.ascending)
        p5 == PutScalarOrList(p4, "id", a.id)
        p6 == PutScalarOrList(p5, "slug", a.slug)
        p7 == PutIfNotNone(p6, "archived", a.archived)
        p8 == PutIfNotNone(p7, "active", a.active)
        p9 == PutIfNotNone(p8, "closed", a.closed)
        p10 == PutIfNotNone(p9, "liquidity_min", a.liquidity_min)
        p11 == PutIfNotNone(p10, "liquidity_max", a.liquidity_max)
        p12 == PutIfNotNone(p11, "volume_min", a.volume_min)
        p13 == PutIfNotNone(p12, "volume_max", a.volume_max)
        p14 == PutIfTruthy(p13, "start_date_min", a.start_date_min)
        p15 == PutIfTruthy(p14, "start_date_max", a.start_date_max)
        p16 == PutIfTruthy(p15, "end_date_min", a.end_date_min)
        p17 == PutIfTruthy(p16, "end_date_max", a.end_date_max)
    IN  EventsTagFilter(p17, a)

(***************************************************************************)
(* The other tools' parameters.                                            *)
(***************************************************************************)
\* A parameter the caller leaves out takes its default.
Omitted == [t |-> "omitted"]
Bind(x, default) == IF x.t = "omitted" THEN default ELSE x

\* get_order_book: params = {}; if outcome_id: params["outcome_id"] = outcome_id
OrderBookParams(a) == PutIfTruthy(<<>>, "outcome_id", Bind(a.outcome_id, PyNone))

\* get_recent_trades: params = {"limit": limit}, limit: int = 50
DefaultTradesLimit == 50
RecentTradesParams(a) == <<Entry("limit", Bind(a.limit, PyInt(DefaultTradesLimit)))>>

\* get_market_history: params = {"resolution": resolution}, resolution = "hour"
MarketHistoryParams(a) ==
    <<Entry("resolution", Bind(a.resolution, PyStr("hour")))>>

\* search_markets: params = {"slug": query, "limit": limit}, limit: int = 20
DefaultSearchLimit == 20
\* Mutant: the default of get_recent_trades is used for limit.
SearchParamsTradesDefault(a) ==
    <<Entry("slug", a.query),
      Entry("limit", Bind(a.limit, PyInt(DefaultTradesLimit)))>>

SearchParams(a) ==
    <<Entry("slug", a.query),
      Entry("limit", Bind(a.limit, PyInt(DefaultSearchLimit)))>>

(***************************************************************************)
(* The request executor, make_api_request.                                 *)
(***************************************************************************)
\* A result of a coroutine: a returned value or a raised exception.
Return(v) == [val |-> v, kind |-> "return"]
Raise(e) == [val |-> e, kind |-> "raise"]
NoOutcome == [val |-> PyNone, kind |-> "none"]

\* An exception: its class, the HTTP status it carries (0: none), str(e).
Exc(type, status, msg) == [status |-> status, type |-> type, msg |-> msg]

\* The arguments of one call of make_api_request.
ExecCall(endpoint, params, method, data) ==
    [endpoint |-> endpoint, params |-> params, method |-> method, data |-> data]
NoCall == ExecCall("", PyNone, "", PyNone)

\* Mutant: the base and the endpoint are joined as they are given.
UrlNoStrip(base, endpoint) == base \o "/" \o endpoint

\* url = f"{config.api_url.rstrip('/')}/{endpoint.lstrip('/')}"
Url(base, endpoint) == rstrip(base) \o "/" \o lstrip(endpoint)

\* Mutant: the authentication branch adds a credential header.
HeadersWithAuth(cfg) ==
    {<<"Content-Type", "application/json">>}
        \cup (IF cfg.requires_auth THEN {<<"POLY_API_KEY", "key">>} ELSE {})

\* headers = {"Content-Type": "application/json"}; requires_auth adds nothing.
Headers(cfg) == {<<"Content-Type", "application/json">>}

\* params or {}
ParamsOrEmpty(params) == IF Truthy(params) THEN params.v ELSE <<>>

\* httpx's text of a primitive query value.
PrimitiveToStr(x) ==
    CASE x.t = "none" -> ""
      [] x.t = "bool" -> IF x.v THEN "true" ELSE "false"
      [] x.t = "int" -> IntToStr(x.v)
      [] x.t = "str" -> x.v

RECURSIVE QueryEntries(_)
\* The query string httpx sends for params: a list value gives one entry per
\* element under the same key, a scalar gives one entry.
QueryEntries(entries) ==
    IF entries = <<>> THEN <<>>
    ELSE LET e == Head(entries)
             own == IF e.v.t = "list"
                    THEN [i \in 1..Len(e.v.v) |->
                            <<e.k, PrimitiveToStr(e.v.v[i])>>]
                    ELSE <<<<e.k, PrimitiveToStr(e.v)>>>>
         IN  own \o QueryEntries(Tail(entries))

\* An HTTP request on the wire.
WireRequest(cfg, c) ==
    [query |-> QueryEntries(ParamsOrEmpty(c.params)),
     method |-> c.method,
     url |-> Url(cfg.api_url, c.endpoint),
     headers |-> Headers(cfg),
     body |-> IF c.method = "POST" THEN c.data ELSE PyNone]
NoWire == [query |-> <<>>, method |-> "", url |-> "", headers |-> {}, body |-> PyNone]

\* Mutant: any method other than POST is sent as a GET.
ExecStartDefaultGet(cfg, c) ==
    [sent |-> TRUE, wire |-> WireRequest(cfg, c), result |-> NoOutcome]

\* make_api_request up to its await: the request it sends, or the error it
\* raises without sending one.
ExecStart(cfg, c) ==
    IF c.method = "GET" \/ c.method = "POST"
    THEN [sent |-> TRUE, wire |-> WireRequest(cfg, c), result |-> NoOutcome]
    ELSE [sent |-> FALSE, wire |-> NoWire,
          result |-> Raise(Exc("ValueError", 0,
                               "Unsupported HTTP method: " \o c.method))]

\* What the upstream does with a request: a response, whose body is JSON text
\* or not, or a failure of the network.
JsonBody(v) == [val |-> v, json |-> TRUE]
NotJson == [val |-> PyNone, json |-> FALSE]
Response(status, body) == [status |-> status, kind |-> "response", body |-> body]
NetworkFailure == [status |-> 0, kind |-> "network_error", body |-> NotJson]
NoResponse == [status |-> 0, kind |-> "none", body |-> NotJson]

\* Mutant: only client and server errors (4xx, 5xx) raise.
RaisesForErrorStatus(status) == status >= 400

\* response.raise_for_status(): raises unless the status is a success (2xx).
RaisesForStatus(status) == ~(200 <= status /\ status <= 299)

\* make_api_request after its await.
ExecFinish(resp) ==
    IF resp.kind = "network_error"
    THEN Raise(Exc("ConnectError", 0, "All connection attempts failed"))
    ELSE IF RaisesForStatus(resp.status)
    THEN Raise(Exc("HTTPStatusError", resp.status,
                   "HTTP status " \o IntToStr(resp.status)))
    ELSE IF ~resp.body.json
    THEN Raise(Exc("JSONDecodeError", 0, "Expecting value"))
    ELSE Return(resp.body.val)

\* Mutant: a failed request is sent once more.
RetriesOnce(result, sent) == sent < 2

\* Whether make_api_request sends its request again after a failure: it has
\* no retry loop, an exception leaves it at once.
Retries(result, sent) == FALSE

\* Mutant: the authentication branch switches the toggle off once it is used.
ExecConfigClearsAuth(cfg) ==
    IF cfg.requires_auth THEN [cfg EXCEPT !.requires_auth = FALSE] ELSE cfg

\* The configuration as make_api_request leaves it: it reads config.api_url
\* and config.requires_auth ("if config.requires_auth: pass") and assigns
\* neither.
ExecConfig(cfg) == cfg

(***************************************************************************)
(* The tool operations and the resource projections.                       *)
(***************************************************************************)
Tools ==
    {"get_markets", "get_market_by_id", "get_order_book", "get_recent_trades",
     "get_market_history", "search_markets", "get_events", "get_event_by_id"}
Resources ==
    {"markets_resource", "market_details_resource", "search_markets_resource",
     "events_resource", "event_details_resource"}

\* The tool a resource projection awaits (a tool is its own).
ToolOf(entry) ==
    CASE entry = "markets_resource" -> "get_markets"
      [] entry = "market_details_resource" -> "get_market_by_id"
      [] entry = "search_markets_resource" -> "search_markets"
      [] entry = "events_resource" -> "get_events"
      [] entry = "event_details_resource" -> "get_event_by_id"
      [] OTHER -> entry

\* Mutant: every tool returns the default of get_markets.
ToolDefaultEmptyMarkets(tool, e) == PyDict(<<Entry("markets", PyList(<<>>))>>)

\* What a tool's "except Exception" returns.
ToolDefault(tool, e) ==
    CASE tool \in {"get_markets", "search_markets"} ->
            PyDict(<<Entry("markets", PyList(<<>>))>>)
      [] tool = "get_events" -> PyDict(<<Entry("events", PyList(<<>>))>>)
      [] tool = "get_recent_trades" -> PyDict(<<Entry("trades", PyList(<<>>))>>)
      [] tool = "get_market_history" -> PyDict(<<Entry("history", PyList(<<>>))>>)
      [] tool \in {"get_market_by_id", "get_event_by_id", "get_order_book"} ->
            PyDict(<<Entry("error", PyStr(e.msg))>>)

\* What a tool's "except Exception" writes to stderr.
ToolErrorLine(tool, e) ==
    (CASE tool = "get_markets" -> "Error getting markets: "
       [] tool = "get_market_by_id" -> "Error getting market details: "
       [] tool = "get_order_book" -> "Error getting order book: "
       [] tool = "get_recent_trades" -> "Error getting recent trades: "
       [] tool = "get_market_history" -> "Error getting market history: "
       [] tool = "search_markets" -> "Error searching markets: "
       [] tool = "get_events" -> "Error getting events: "
       [] tool = "get_event_by_id" -> "Error getting event details: ")
    \o e.msg \o "\n"

\* Mutant: no try / except, the exception leaves the tool.
ToolOutcomePropagate(tool, result) == result

\* Mutant: the tool returns the list under the container key, not the envelope.
ToolOutcomeUnwrap(tool, result) ==
    IF result.kind = "return"
    THEN Return(IF result.val.t = "dict" /\ HasKey(result.val.v, "markets")
                THEN Get(result.val.v, "markets")
                ELSE result.val)
    ELSE Return(ToolDefault(tool, result.val))

\* A tool's try / except around its call of make_api_request.
ToolOutcome(tool, result) ==
    IF result.kind = "return" THEN Return(result.val)
    ELSE Return(ToolDefault(tool, result.val))

ToolStderr(tool, result) ==
    IF result.kind = "return" THEN <<>>
    ELSE <<ToolErrorLine(tool, result.val)>>

RECURSIVE Spaces(_)
Spaces(n) == IF n = 0 THEN "" ELSE " " \o Spaces(n - 1)

RECURSIVE JsonDumps(_, _)
RECURSIVE JsonItems(_, _, _)
\* json.dumps(x, indent=2), at nesting depth d.
JsonDumps(x, d) ==
    CASE x.t = "none" -> "null"
      [] x.t = "bool" -> IF x.v THEN "true" ELSE "false"
      [] x.t = "int" -> IntToStr(x.v)
      [] x.t = "str" -> "\"" \o x.v \o "\""
      [] x.t = "list" ->
            IF x.v = <<>> THEN "[]"
            ELSE "[\n" \o JsonItems(x.v, d + 1, FALSE)
                 \o "\n" \o Spaces(2 * d) \o "]"
      [] x.t = "dict" ->
            IF x.v = <<>> THEN "{}"
            ELSE "{\n" \o JsonItems(x.v, d + 1, TRUE)
                 \o "\n" \o Spaces(2 * d) \o "}"

\* The items of a list or a dict, one per line.
JsonItems(items, d, keyed) ==
    LET it == Head(items)
        one == Spaces(2 * d) \o
               (IF keyed THEN "\"" \o it.k \o "\": " \o JsonDumps(it.v, d)
                ELSE JsonDumps(it, d))
    IN  IF Len(items) = 1 THEN one
        ELSE one \o ",\n" \o JsonItems(Tail(items), d, keyed)

ResourceErrorPrefix(res) ==
    CASE res = "markets_resource" -> "Error retrieving markets: "
      [] res = "market_details_resource" -> "Error retrieving market details: "
      [] res = "search_markets_resource" -> "Error searching markets: "
      [] res = "events_resource" -> "Error retrieving events: "
      [] res = "event_details_resource" -> "Error retrieving event details: "

\* Mutant: a result that reports a failure is turned into the error string.
ResourceOutcomeErrorText(res, toolResult) ==
    IF toolResult.kind = "return"
       /\ ~(toolResult.val.t = "dict" /\ HasKey(toolResult.val.v, "error"))
    THEN Return(PyStr(JsonDumps(toolResult.val, 0)))
    ELSE Return(PyStr(ResourceErrorPrefix(res)))

\* A resource projection's try / except around its tool:
\* json.dumps(result, indent=2), or the error string.
ResourceOutcome(res, toolResult) ==
    IF toolResult.kind = "return"
    THEN Return(PyStr(JsonDumps(toolResult.val, 0)))
    ELSE Return(PyStr(ResourceErrorPrefix(res) \o toolResult.val.msg))

\* What the invoked operation hands to its caller, given the outcome of its
\* call of make_api_request.
EntryToolResult(entry, result) ==
    IF entry = "make_api_request" THEN NoOutcome
    ELSE ToolOutcome(ToolOf(entry), result)

EntryOutcome(entry, result) ==
    IF entry = "make_api_request" THEN result
    ELSE IF entry \in Resources
    THEN ResourceOutcome(entry, ToolOutcome(ToolOf(entry), result))
    ELSE ToolOutcome(entry, result)

EntryStderr(entry, result) ==
    IF entry = "make_api_request" THEN <<>>
    ELSE ToolStderr(ToolOf(entry), result)

(***************************************************************************)
(* The bootstrap, main.py: setup_environment and run_server.               *)
(***************************************************************************)
\* config.<name>: GammaConfig is a dataclass with the fields api_url and
\* requires_auth; reading any other attribute raises AttributeError.
GetAttr(cfg, name) ==
    IF name \in DOMAIN cfg THEN Return(cfg[name])
    ELSE Raise(Exc("AttributeError", 0,
                   "'GammaConfig' object has no attribute '" \o name \o "'"))

\* setup_environment(): <<the lines it prints, what it returns or raises>>.
\* found is the result of dotenv.load_dotenv(). An f-string is evaluated
\* before print is called, so a line whose value raises is not printed.
SetupEnvironment(cfg, found) ==
    LET loaded == IF found
                  THEN <<"Loaded environment variables from .env file">>
                  ELSE <<"No .env file found or could not load it - using environment variables">>
        warning == IF cfg.api_url = ""
                   THEN <<"WARNING: POLYMARKET_API_URL environment variable is not set",
                          "Using default API URL: https://clob.polymarket.com">>
                   ELSE <<>>
        header == <<"Polymarket API configuration:",
                    "  API URL: " \o cfg.api_url>>
        chain == GetAttr(cfg, "chain_id")
    IN  IF chain.kind = "raise"
        THEN <<loaded \o warning \o header, chain>>
        ELSE <<loaded \o warning \o header
                 \o <<"  Chain ID: " \o IntToStr(chain.val)>>,
               Return(PyBool(TRUE))>>

\* run_server() replaces sys.stderr by a NullWriter before mcp.run(): what
\* the tools write to sys.stderr is kept only when the server was not
\* started through run_server.
Written(b, lines) == IF b.kind = "return" THEN <<>> ELSE lines

(***************************************************************************)
(* The inputs: configurations, arguments and upstream answers.             *)
(***************************************************************************)
\* GammaConfig, from GAMMA_API_URL and GAMMA_REQUIRES_AUTH.
DefaultApiUrl == "https://gamma-api.polymarket.com"
ApiUrls == {DefaultApiUrl, DefaultApiUrl \o "/", DefaultApiUrl \o "//", ""}
Configs == [api_url : ApiUrls, requires_auth : BOOLEAN]

\* The lists passed for a list-valued filter: distinct elements, in an order.
IntList(n) == PyList([i \in 1..n |-> PyInt(100 + i)])
StrList(n) == PyList([i \in 1..n |-> PyStr("s" \o IntToStr(i))])

\* The values a caller supplies for a parameter of each type.
Values(kind) ==
    CASE kind = "int" -> {PyInt(0), PyInt(5)}
      [] kind = "bool" -> {PyBool(TRUE), PyBool(FALSE)}
      [] kind = "str" -> {PyStr(""), PyStr("x")}
      [] kind = "int_or_list" -> {PyInt(7)} \cup {IntList(n) : n \in 0..MaxList}
      [] kind = "str_or_list" -> {PyStr("s0")} \cup {StrList(n) : n \in 0..MaxList}
      [] kind = "status" ->
            {PyStr("open"), PyStr("closed"), PyStr("archived"), PyStr("OPEN"),
             PyStr("Closed"), PyStr("resolved"), PyStr("")}

\* The signature of get_markets: each parameter and its type.
MarketsSignature ==
    [limit |-> "int", offset |-> "int", order |-> "str", ascending |-> "bool",
     id |-> "int_or_list", slug |-> "str_or_list", archived |-> "bool",
     active |-> "bool", closed |-> "bool", clob_token_ids |-> "str_or_list",
     condition_ids |-> "str_or_list", liquidity_num_min |-> "int",
     liquidity_num_max |-> "int", volume_num_min |-> "int",
     volume_num_max |-> "int", start_date_min |-> "str",
     start_date_max |-> "str", end_date_min |-> "str", end_date_max |-> "str",
     tag_id |-> "int", related_tags |-> "bool", status |-> "status"]

\* The signature of get_events.
EventsSignature ==
    [limit |-> "int", offset |-> "int", order |-> "str", ascending |-> "bool",
     id |-> "int_or_list", slug |-> "str_or_list", archived |-> "bool",
     active |-> "bool", closed |-> "bool", liquidity_min |-> "int",
     liquidity_max |-> "int", volume_min |-> "int", volume_max |-> "int",
     start_date_min |-> "str", start_date_max |-> "str",
     end_date_min |-> "str", end_date_max |-> "str", tag |-> "str",
     tag_id |-> "int", related_tags |-> "bool", tag_slug |-> "str"]

\* The parameters whose handling depends on one another.
MarketsGroups == {{"status", "active", "closed", "archived"}, {"tag_id", "related_tags"}}
EventsGroups == {{"tag", "tag_id", "related_tags", "tag_slug"}}

RECURSIVE SubsetsUpTo(_, _)
\* The subsets of S with at most k elements.
SubsetsUpTo(S, k) ==
    IF k = 0 THEN {{}}
    ELSE LET smaller == SubsetsUpTo(S, k - 1)
         IN  smaller \cup {s \cup {x} : s \in smaller, x \in S}

RECURSIVE Assignments(_, _)
\* The ways to supply a value for each parameter of S.
Assignments(sig, S) ==
    IF S = {} THEN {<<>>}
    ELSE LET p == CHOOSE x \in S : TRUE
         IN  {f @@ (p :> v) : f \in Assignments(sig, S \ {p}), v \in Values(sig[p])}

\* A call: every parameter not supplied is None (its default).
ArgsSupplying(sig, f) ==
    [p \in DOMAIN sig |-> IF p \in DOMAIN f THEN f[p] ELSE PyNone]

\* The calls of a filtered listing: at most MaxSupplied filters supplied, or
\* any filters of one group of dependent parameters.
ArgSpace(sig, groups) ==
    LET supplied == SubsetsUpTo(DOMAIN sig, MaxSupplied)
                    \cup UNION {SUBSET g : g \in groups}
    IN  UNION {{ArgsSupplying(sig, f) : f \in Assignments(sig, S)} : S \in supplied}

NoArgs == <<>>
MarketIds == {"m1", "12345"}
EventIds == {"e1", "456"}
Queries == {"election", ""}

\* The JSON values the upstream answers with.
SampleMarket ==
    PyDict(<<Entry("id", PyInt(123)), Entry("slug", PyStr("sample-market")),
             Entry("active", PyBool(TRUE))>>)
SampleBodies ==
    <<JsonBody(PyDict(<<Entry("markets", PyList(<<SampleMarket>>))>>)),
      JsonBody(PyList(<<SampleMarket, SampleMarket>>)),
      NotJson>>
Statuses == {199, 200, 299, 300, 404, 500}

\* The calls made of make_api_request itself.
DirectEndpoints == {"markets", "/markets", "//markets", "events/456"}
DirectParams ==
    <<PyNone, PyDict(<<>>), PyDict(<<Entry("limit", PyInt(5))>>),
      PyDict(<<Entry("id", IntList(2))>>)>>
DirectMethods == {"GET", "POST", "PUT", "DELETE", "get"}
DirectData == <<PyNone, PyDict(<<Entry("side", PyStr("BUY"))>>)>>

(***************************************************************************)
(* The state: one invocation of a tool, of a resource projection or of the *)
(* executor, from its call to the value handed to its caller.              *)
(***************************************************************************)
VARIABLES
    config,      \* the GammaConfig built at import
    pc,          \* "idle", "http" (suspended at the network call), "done"
    op,          \* the operation invoked
    args,        \* its arguments
    call,        \* the arguments of its call of make_api_request
    wire,        \* the HTTP request in flight
    httpCalls,   \* HTTP requests sent by this invocation
    response,    \* what the upstream answered
    execResult,  \* what make_api_request returned or raised
    toolResult,  \* what the tool returned or raised
    outcome,     \* what the invoked operation returned or raised
    stderr,      \* the lines written to sys.stderr
    boot,        \* what setup_environment returned or raised
    stdout,      \* the lines the bootstrap printed
    \* Concurrent invocations, one coroutine each (index: the invocation).
    tpc,         \* "idle", "http" (suspended at its network call), "done"
    tentry,      \* the operation it runs
    targs,       \* its arguments
    twire,       \* the HTTP request it sent
    tanswer,     \* what the upstream answered to that request
    toutcome     \* what it returned or raised

taskVars == <<tpc, tentry, targs, twire, tanswer, toutcome>>

vars == <<config, pc, op, args, call, wire, httpCalls, response, execResult,
          toolResult, outcome, stderr, boot, stdout, taskVars>>

TaskIds == 1..NumTasks

Init ==
    /\ config \in Configs
    /\ pc = "idle"
    /\ op = "none"
    /\ args = NoArgs
    /\ call = NoCall
    /\ wire = NoWire
    /\ httpCalls = 0
    /\ response = NoResponse
    /\ execResult = NoOutcome
    /\ toolResult = NoOutcome
    /\ outcome = NoOutcome
    /\ stderr = <<>>
    /\ boot = NoOutcome
    /\ stdout = <<>>
    /\ tpc = [i \in TaskIds |-> "idle"]
    /\ tentry = [i \in TaskIds |-> "none"]
    /\ targs = [i \in TaskIds |-> NoArgs]
    /\ twire = [i \in TaskIds |-> NoWire]
    /\ tanswer = [i \in TaskIds |-> NoResponse]
    /\ toutcome = [i \in TaskIds |-> NoOutcome]

\* The invoked operation runs to its call of make_api_request, which sends
\* the request and suspends, or raises before sending anything.
Start(entry, a, c) ==
    /\ pc = "idle"
    /\ response' = NoResponse
    /\ op' = entry
    /\ args' = a
    /\ call' = c
    /\ LET st == ExecStart(config, c)
       IN  IF st.sent
           THEN /\ wire' = st.wire
                /\ httpCalls' = httpCalls + 1
                /\ pc' = "http"
                /\ UNCHANGED <<execResult, toolResult, outcome, stderr>>
           ELSE /\ pc' = "done"
                /\ execResult' = st.result
                /\ toolResult' = EntryToolResult(entry, st.result)
                /\ outcome' = EntryOutcome(entry, st.result)
                /\ stderr' = Written(boot, EntryStderr(entry, st.result))
                /\ UNCHANGED <<wire, httpCalls>>
    /\ config' = ExecConfig(config)
    /\ UNCHANGED <<boot, stdout, taskVars>>

\* The calls of make_api_request the tools make.
MarketsCall(a) == ExecCall("markets", PyDict(MarketsParams(a)), "GET", PyNone)
EventsCall(a) == ExecCall("events", PyDict(EventsParams(a)), "GET", PyNone)
MarketByIdCall(a) == ExecCall("markets/" \o a.market_id.v, PyNone, "GET", PyNone)
EventByIdCall(a) == ExecCall("events/" \o a.event_id.v, PyNone, "GET", PyNone)
OrderBookCall(a) ==
    ExecCall("markets/" \o a.market_id.v \o "/orderbook",
             PyDict(OrderBookParams(a)), "GET", PyNone)
RecentTradesCall(a) ==
    ExecCall("markets/" \o a.market_id.v \o "/trades",
             PyDict(RecentTradesParams(a)), "GET", PyNone)
MarketHistoryCall(a) ==
    ExecCall("markets/" \o a.market_id.v \o "/history",
             PyDict(MarketHistoryParams(a)), "GET", PyNone)
SearchCall(a) == ExecCall("markets", PyDict(SearchParams(a)), "GET", PyNone)

GetMarkets ==
    \E a \in ArgSpace(MarketsSignature, MarketsGroups) :
        Start("get_markets", a, MarketsCall(a))

GetEvents ==
    \E a \in ArgSpace(EventsSignature, EventsGroups) :
        Start("get_events", a, EventsCall(a))

GetMarketById ==
    \E m \in MarketIds :
        LET a == [market_id |-> PyStr(m)]
        IN  Start("get_market_by_id", a, MarketByIdCall(a))

GetEventById ==
    \E e \in EventIds :
        LET a == [event_id |-> PyStr(e)]
        IN  Start("get_event_by_id", a, EventByIdCall(a))

GetOrderBook ==
    \E m \in MarketIds, o \in {Omitted, PyNone, PyStr(""), PyStr("yes")} :
        LET a == [market_id |-> PyStr(m), outcome_id |-> o]
        IN  Start("get_order_book", a, OrderBookCall(a))

GetRecentTrades ==
    \E m \in MarketIds, l \in {Omitted, PyInt(0), PyInt(5)} :
        LET a == [market_id |-> PyStr(m), limit |-> l]
        IN  Start("get_recent_trades", a, RecentTradesCall(a))

GetMarketHistory ==
    \E m \in MarketIds, r \in {Omitted, PyStr("day")} :
        LET a == [market_id |-> PyStr(m), resolution |-> r]
        IN  Start("get_market_history", a, MarketHistoryCall(a))

SearchMarkets ==
    \E q \in Queries, l \in {Omitted, PyInt(0), PyInt(5)} :
        LET a == [limit |-> l, query |-> PyStr(q)]
        IN  Start("search_markets", a, SearchCall(a))

\* markets = await get_markets()
MarketsResource ==
    LET a == ArgsSupplying(MarketsSignature, <<>>)
    IN  Start("markets_resource", a, MarketsCall(a))

\* market = await get_market_by_id(market_id=market_id)
MarketDetailsResource ==
    \E m \in MarketIds :
        LET a == [market_id |-> PyStr(m)]
        IN  Start("market_details_resource", a, MarketByIdCall(a))

\* markets = await search_markets(query=query)
SearchMarketsResource ==
    \E q \in Queries :
        LET a == [limit |-> Omitted, query |-> PyStr(q)]
        IN  Start("search_markets_resource", a, SearchCall(a))

\* events = await get_events()
EventsResource ==
    LET a == ArgsSupplying(EventsSignature, <<>>)
    IN  Start("events_resource", a, EventsCall(a))

\* event = await get_event_by_id(event_id=event_id)
EventDetailsResource ==
    \E e \in EventIds :
        LET a == [event_id |-> PyStr(e)]
        IN  Start("event_details_resource", a, EventByIdCall(a))

\* make_api_request called by itself, as its unit tests do.
MakeApiRequest ==
    \E e \in DirectEndpoints, m \in DirectMethods,
       i \in 1..Len(DirectParams), j \in 1..Len(DirectData) :
        LET c == ExecCall(e, DirectParams[i], m, DirectData[j])
        IN  Start("make_api_request", c, c)

\* The upstream answers (or the network fails): make_api_request resumes,
\* and its result goes up through the tool and the resource projection.
\* args and call describe the invocation while its request is pending; the
\* coroutines' locals are gone once they have returned.
Finish(resp) ==
    /\ pc = "http"
    /\ LET r == ExecFinish(resp)
       IN  IF r.kind = "raise" /\ Retries(r, httpCalls)
           THEN /\ httpCalls' = httpCalls + 1
                /\ UNCHANGED <<pc, op, args, call, wire, response, execResult,
                               toolResult, outcome, stderr>>
           ELSE /\ pc' = "done"
                /\ wire' = NoWire
                /\ response' = resp
                /\ execResult' = r
                /\ toolResult' = EntryToolResult(op, r)
                /\ outcome' = EntryOutcome(op, r)
                /\ stderr' = Written(boot, EntryStderr(op, r))
                /\ args' = NoArgs
                /\ call' = NoCall
                /\ UNCHANGED <<op, httpCalls>>
    /\ UNCHANGED <<config, boot, stdout, taskVars>>

UpstreamResponds ==
    \E s \in Statuses, i \in 1..Len(SampleBodies) : Finish(Response(s, SampleBodies[i]))

NetworkFails == Finish(NetworkFailure)

\* The caller takes the result; the next invocation may start.
Deliver ==
    /\ pc = "done"
    /\ pc' = "idle"
    /\ op' = "none"
    /\ args' = NoArgs
    /\ call' = NoCall
    /\ wire' = NoWire
    /\ httpCalls' = 0
    /\ response' = NoResponse
    /\ execResult' = NoOutcome
    /\ toolResult' = NoOutcome
    /\ outcome' = NoOutcome
    /\ stderr' = <<>>
    /\ UNCHANGED <<config, boot, stdout, taskVars>>

\* run_server(), the entry point of the process: "if not setup_environment():
\* sys.exit(1)", two more lines, then mcp.run() serves the tools. An
\* exception of setup_environment leaves run_server and ends the process.
RunServer ==
    /\ pc = "idle"
    /\ boot = NoOutcome
    /\ \E found \in BOOLEAN :
          LET r == SetupEnvironment(config, found)
          IN  /\ boot' = r[2]
              /\ IF r[2].kind = "return"
                 THEN /\ pc' = "idle"
                      /\ stdout' = r[1] \o <<"\nStarting Polymarket MCP Server...",
                                              "Running server in standard mode...">>
                 ELSE /\ pc' = "exited"
                      /\ stdout' = r[1]
    /\ UNCHANGED <<config, op, args, call, wire, httpCalls, response,
                   execResult, toolResult, outcome, stderr, taskVars>>

Next ==
    \/ GetMarkets
    \/ GetEvents
    \/ GetMarketById
    \/ GetEventById
    \/ GetOrderBook
    \/ GetRecentTrades
    \/ GetMarketHistory
    \/ SearchMarkets
    \/ MarketsResource
    \/ MarketDetailsResource
    \/ SearchMarketsResource
    \/ EventsResource
    \/ EventDetailsResource
    \/ MakeApiRequest
    \/ UpstreamResponds
    \/ NetworkFails
    \/ Deliver
    \/ RunServer

Spec == Init /\ [][Next]_vars

(***************************************************************************)
(* Concurrent invocations: the transport dispatches several invocations,   *)
(* each a coroutine with its own locals that suspends at its network call. *)
(* The module-level state they share is config and sys.stderr.             *)
(***************************************************************************)
\* The call of make_api_request an operation makes for its arguments.
CallOf(entry, a) ==
    CASE ToolOf(entry) = "get_markets" -> MarketsCall(a)
      [] ToolOf(entry) = "get_events" -> EventsCall(a)
      [] ToolOf(entry) = "get_market_by_id" -> MarketByIdCall(a)
      [] ToolOf(entry) = "get_event_by_id" -> EventByIdCall(a)
      [] ToolOf(entry) = "get_order_book" -> OrderBookCall(a)
      [] ToolOf(entry) = "get_recent_trades" -> RecentTradesCall(a)
      [] ToolOf(entry) = "get_market_history" -> MarketHistoryCall(a)
      [] ToolOf(entry) = "search_markets" -> SearchCall(a)

\* The invocations dispatched concurrently: <<operation, arguments>>.
TaskCalls ==
    {<<"get_markets", ArgsSupplying(MarketsSignature, <<>>)>>,
     <<"get_markets",
       [ArgsSupplying(MarketsSignature, <<>>) EXCEPT !.slug = StrList(2)]>>,
     <<"get_events",
       [ArgsSupplying(EventsSignature, <<>>) EXCEPT !.limit = PyInt(5)]>>,
     <<"get_market_by_id", [market_id |-> PyStr("m1")]>>,
     <<"search_markets_resource", [limit |-> Omitted, query |-> PyStr("election")]>>}

\* The upstream's answers to them.
TaskAnswers ==
    {Response(200, SampleBodies[1]), Response(404, NotJson), NetworkFailure}

\* Mutant: the response is kept in one module-level variable, so a coroutine
\* resumes with the answer stored first.
AwaitSharedResponse(i, answers) ==
    answers[CHOOSE j \in DOMAIN answers :
                /\ answers[j] # NoResponse
                /\ \A k \in DOMAIN answers : answers[k] # NoResponse => j <= k]

\* response = await client.get(...): each call of make_api_request opens its
\* own httpx.AsyncClient and binds the answer to its own request to a local.
AwaitResponse(i, answers) == answers[i]

RECURSIVE RemoveFirst(_, _)
\* seq without the first occurrence of x.
RemoveFirst(seq, x) ==
    IF seq = <<>> THEN <<>>
    ELSE IF Head(seq) = x THEN Tail(seq)
    ELSE <<Head(seq)>> \o RemoveFirst(Tail(seq), x)

\* Invocation i is dispatched and runs to its call of make_api_request.
TaskStart(i) ==
    /\ tpc[i] = "idle"
    /\ \E c \in TaskCalls :
          LET st == ExecStart(config, CallOf(c[1], c[2]))
          IN  /\ tentry' = [tentry EXCEPT ![i] = c[1]]
              /\ targs' = [targs EXCEPT ![i] = c[2]]
              /\ twire' = [twire EXCEPT ![i] = st.wire]
              /\ IF st.sent
                 THEN /\ tpc' = [tpc EXCEPT ![i] = "http"]
                      /\ UNCHANGED <<toutcome, stderr>>
                 ELSE /\ tpc' = [tpc EXCEPT ![i] = "done"]
                      /\ toutcome' = [toutcome EXCEPT
                                         ![i] = EntryOutcome(c[1], st.result)]
                      /\ stderr' = stderr \o
                                     Written(boot, EntryStderr(c[1], st.result))
    /\ config' = ExecConfig(config)
    /\ UNCHANGED <<tanswer, pc, op, args, call, wire, httpCalls, response,
                   execResult, toolResult, outcome, boot, stdout>>

\* The upstream answers the request of invocation i, which resumes and runs
\* to its return.
TaskFinish(i) ==
    /\ tpc[i] = "http"
    /\ \E resp \in TaskAnswers :
          /\ tanswer' = [tanswer EXCEPT ![i] = resp]
          /\ LET r == ExecFinish(AwaitResponse(i, tanswer'))
             IN  /\ toutcome' = [toutcome EXCEPT
                                    ![i] = EntryOutcome(tentry[i], r)]
                 /\ stderr' = stderr \o Written(boot, EntryStderr(tentry[i], r))
    /\ tpc' = [tpc EXCEPT ![i] = "done"]
    /\ UNCHANGED <<tentry, targs, twire, config, pc, op, args, call, wire,
                   httpCalls, response, execResult, toolResult, outcome, boot,
                   stdout>>

\* The caller of invocation i takes its result (and the line it wrote).
TaskDeliver(i) ==
    /\ tpc[i] = "done"
    /\ tpc' = [tpc EXCEPT ![i] = "idle"]
    /\ tentry' = [tentry EXCEPT ![i] = "none"]
    /\ targs' = [targs EXCEPT ![i] = NoArgs]
    /\ twire' = [twire EXCEPT ![i] = NoWire]
    /\ tanswer' = [tanswer EXCEPT ![i] = NoResponse]
    /\ toutcome' = [toutcome EXCEPT ![i] = NoOutcome]
    /\ stderr' = LET r == ExecFinish(tanswer[i])
                     w == Written(boot, EntryStderr(tentry[i], r))
                 IN  IF w = <<>> THEN stderr ELSE RemoveFirst(stderr, w[1])
    /\ UNCHANGED <<config, pc, op, args, call, wire, httpCalls, response,
                   execResult, toolResult, outcome, boot, stdout>>

Dispatch == \E i \in TaskIds : TaskStart(i)
Resume == \E i \in TaskIds : TaskFinish(i)
TakeResult == \E i \in TaskIds : TaskDeliver(i)

ConcNext ==
    \/ Dispatch
    \/ Resume
    \/ TakeResult

ConcSpec == Init /\ [][ConcNext]_vars

(***************************************************************************)
(* The properties.                                                         *)
(***************************************************************************)
\* A call of get_markets or get_events (by a caller or by a resource
\* projection) whose request is on the wire.
ListingPending == pc = "http" /\ ToolOf(op) \in {"get_markets", "get_events"}

AllUnset == \A p \in DOMAIN args : args[p] = PyNone

\* The flag that the deprecated status of get_markets names, if any.
FlagNamedByStatus(st) ==
    CASE st \in {PyStr("open"), PyStr("OPEN")} -> {"active"}
      [] st \in {PyStr("closed"), PyStr("Closed")} -> {"closed"}
      [] st \in {PyStr("archived")} -> {"archived"}
      [] OTHER -> {}

ListFilters(tool) ==
    IF tool = "get_markets" THEN {"id", "slug", "clob_token_ids", "condition_ids"}
    ELSE {"id", "slug"}

\* The entries of the query on the wire under one key, in their order.
EntriesUnder(query, key) == SelectSeq(query, LAMBDA e : e[1] = key)

\* C2: a list-valued filter given as a list of N elements has exactly N
\* entries under its key in the outgoing query, one per element in the given
\* order; given as a scalar it has a single entry.
C2_ListRepeatsKey ==
    ListingPending =>
        \A p \in ListFilters(ToolOf(op)) :
            LET x == args[p]
                under == EntriesUnder(wire.query, p)
            IN  /\ x.t = "list" =>
                      /\ Len(under) = Len(x.v)
                      /\ \A i \in 1..Len(x.v) :
                            under[i] = <<p, PrimitiveToStr(x.v[i])>>
                /\ x.t \in {"int", "str"} =>
                      under = <<<<p, PrimitiveToStr(x)>>>>

C2_Witness ==
    /\ pc = "http"
    /\ op = "get_markets"
    /\ args.slug = PyList(<<PyStr("s1"), PyStr("s2")>>)
    /\ wire.query = <<<<"slug", "s1">>, <<"slug", "s2">>>>

TagKeys == {"tag", "tag_id", "tag_slug"}

\* A filter value that was supplied and is not empty.
SuppliedNonEmpty(x) == x # PyNone /\ x # PyStr("")

HigherPriority(key) ==
    CASE key = "tag" -> {}
      [] key = "tag_id" -> {"tag"}
      [] key = "tag_slug" -> {"tag", "tag_id"}

\* C3: in get_events at most one of the keys tag, tag_id, tag_slug is in the
\* outgoing query, and it is the one of highest priority (tag > tag_id >
\* tag_slug) among those supplied non-empty, with the value supplied.
C3_TagPriority ==
    (pc = "http" /\ ToolOf(op) = "get_events") =>
        LET present == Keys(call.params.v) \cap TagKeys
        IN  /\ Cardinality(present) <= 1
            /\ \A key \in TagKeys :
                  key \in present <=>
                      /\ SuppliedNonEmpty(args[key])
                      /\ \A h \in HigherPriority(key) : ~SuppliedNonEmpty(args[h])
            /\ \A key \in present : Get(call.params.v, key) = args[key]

C3_Witness ==
    /\ pc = "http"
    /\ op = "get_events"
    /\ args.tag = PyStr("x")
    /\ args.tag_id = PyInt(5)
    /\ args.tag_slug = PyStr("x")
    /\ Keys(call.params.v) = {"tag"}

ListStyleTools ==
    {"get_markets", "search_markets", "get_events", "get_recent_trades",
     "get_market_history"}

\* {key: []}
EmptyUnder(key) == PyDict(<<Entry(key, PyList(<<>>))>>)

\* The empty result each list-style tool documents.
EmptyResult(tool) ==
    CASE tool \in {"get_markets", "search_markets"} -> EmptyUnder("markets")
      [] tool = "get_events" -> EmptyUnder("events")
      [] tool = "get_recent_trades" -> EmptyUnder("trades")
      [] tool = "get_market_history" -> EmptyUnder("history")

\* C5: a list-style read operation never raises, and when the request
\* executor fails (non-2xx status, network failure, any other exception) it
\* returns its empty default.
C5_EmptyDefaultOnFailure ==
    (pc = "done" /\ op \in ListStyleTools) =>
        /\ outcome.kind = "return"
        /\ execResult.kind = "raise" => outcome.val = EmptyResult(op)

C5_Witness ==
    /\ pc = "done"
    /\ op = "get_markets"
    /\ response.kind = "response"
    /\ response.status = 404
    /\ execResult.kind = "raise"
    /\ outcome = Return(PyDict(<<Entry("markets", PyList(<<>>))>>))

C7_AtMostOneHttpCall ==
    op \in Tools \cup Resources => httpCalls <= 1

C7_Witness ==
    /\ pc = "done"
    /\ op = "markets_resource"
    /\ response.kind = "response"
    /\ response.status = 500
    /\ execResult.kind = "raise"
    /\ httpCalls = 1

\* C8: for a response whose status is outside 200..299 make_api_request
\* raises an error that carries the status; it returns a value only for a
\* response whose status is in 200..299.
C8_NonSuccessIsError ==
    pc = "done" =>
        /\ (/\ response.kind = "response"
            /\ (response.status < 200 \/ response.status > 299))
           => /\ execResult.kind = "raise"
              /\ execResult.val.type = "HTTPStatusError"
              /\ execResult.val.status = response.status
        /\ execResult.kind = "return" =>
              /\ response.kind = "response"
              /\ response.status \in 200..299

C8_Witness ==
    /\ pc = "done"
    /\ op = "make_api_request"
    /\ response.kind = "response"
    /\ response.status = 300
    /\ response.body.json
    /\ execResult.kind = "raise"
    /\ execResult.val.status = 300

\* C9: make_api_request called with a method other than GET or POST raises
\* a local error and sends no HTTP request.
C9_UnsupportedMethodSendsNothing ==
    (/\ op = "make_api_request"
     /\ call # NoCall
     /\ call.method \notin {"GET", "POST"})
    => /\ pc = "done"
       /\ httpCalls = 0
       /\ wire = NoWire
       /\ response = NoResponse
       /\ outcome.kind = "raise"
       /\ outcome.val.type = "ValueError"

C9_Witness ==
    /\ pc = "done"
    /\ op = "make_api_request"
    /\ call.method = "PUT"
    /\ httpCalls = 0
    /\ outcome = Raise(Exc("ValueError", 0, "Unsupported HTTP method: PUT"))

\* C10, as stated: a resource projection never raises; when the call of the
\* upstream fails it returns the error string, and when it succeeds the
\* result serialized as indented JSON text.
C10_ErrorStringOnFailure ==
    (pc = "done" /\ op \in Resources) =>
        /\ outcome.kind = "return"
        /\ execResult.kind = "raise" =>
              outcome.val = PyStr(ResourceErrorPrefix(op) \o execResult.val.msg)
        /\ execResult.kind = "return" =>
              outcome.val = PyStr(JsonDumps(execResult.val, 0))

\* What the tool behind a resource projection returns when its call fails.
FailureResult(tool, e) ==
    CASE tool \in {"get_markets", "search_markets"} -> EmptyUnder("markets")
      [] tool = "get_events" -> EmptyUnder("events")
      [] tool \in {"get_market_by_id", "get_event_by_id"} ->
            PyDict(<<Entry("error", PyStr(e.msg))>>)

\* C10, amended: a resource projection never raises and always returns the
\* result of the tool it wraps serialized as indented JSON text: the value
\* the upstream sent when the call succeeds, and the tool's own failure
\* result ({"markets": []}, {"events": []}, {"error": message}) when the
\* call fails, never the error string.
C10_SerializesToolResult ==
    (pc = "done" /\ op \in Resources) =>
        /\ outcome.kind = "return"
        /\ toolResult.kind = "return"
        /\ outcome.val = PyStr(JsonDumps(toolResult.val, 0))
        /\ execResult.kind = "return" => toolResult.val = execResult.val
        /\ execResult.kind = "raise" =>
              /\ toolResult.val = FailureResult(ToolOf(op), execResult.val)
              /\ outcome.val # PyStr(ResourceErrorPrefix(op) \o execResult.val.msg)
        /\ (execResult.kind = "raise" /\ op = "events_resource") =>
              outcome.val.v = "{\n  \"events\": []\n}"

C10_Witness ==
    /\ pc = "done"
    /\ op = "markets_resource"
    /\ response = NetworkFailure
    /\ execResult.kind = "raise"
    /\ outcome = Return(PyStr("{\n  \"markets\": []\n}"))

\* C11: the configuration is never changed after it is constructed: no step
\* of a tool operation, of a resource projection, of the request executor or
\* of the bootstrap changes api_url or requires_auth.
C11_ConfigImmutable == [][config' = config]_vars

C11_Witness ==
    /\ pc = "done"
    /\ op = "make_api_request"
    /\ config.requires_auth
    /\ config.api_url = ""
    /\ httpCalls = 1
    /\ execResult.kind = "return"

\* C14, as stated: setup_environment runs to completion for every
\* configuration, returns True and reports the API URL and the chain id of
\* the configuration, which is 137 when unset.
C14_SetupNeverFails ==
    boot # NoOutcome =>
        /\ boot = Return(PyBool(TRUE))
        /\ \E i \in 1..Len(stdout) : stdout[i] = "  API URL: " \o config.api_url
        /\ \E i \in 1..Len(stdout) : stdout[i] = "  Chain ID: 137"

EnvelopeTools == {"get_markets", "search_markets", "get_events"}
ContainerKey(tool) == IF tool = "get_events" THEN "events" ELSE "markets"

\* C12, as stated: whatever the upstream outcome (success with any JSON
\* value, or a failure), get_markets and search_markets return an object that
\* has the key "markets" and get_events an object that has the key "events".
C12_FixedEnvelope ==
    (pc = "done" /\ op \in EnvelopeTools) =>
        /\ outcome.kind = "return"
        /\ outcome.val.t = "dict"
        /\ HasKey(outcome.val.v, ContainerKey(op))

NoTrailingSlash(s) == Len(s) = 0 \/ SubSeq(s, Len(s), Len(s)) # "/"
NoLeadingSlash(s) == Len(s) = 0 \/ SubSeq(s, 1, 1) # "/"
AllSlashes(s) == \A i \in 1..Len(s) : SubSeq(s, i, i) = "/"

\* C15: the URL of a request is b, "/", e, where b is the configured base
\* without its trailing slashes and e the endpoint without its leading
\* slashes, so exactly one "/" separates them; the endpoints "markets" and
\* "/markets" give the same URL.
C15_UrlJoin ==
    pc = "http" =>
        \E i \in 0..Len(config.api_url), j \in 0..Len(call.endpoint) :
            LET b == SubSeq(config.api_url, 1, i)
                e == SubSeq(call.endpoint, j + 1, Len(call.endpoint))
            IN  /\ NoTrailingSlash(b)
                /\ AllSlashes(SubSeq(config.api_url, i + 1, Len(config.api_url)))
                /\ NoLeadingSlash(e)
                /\ AllSlashes(SubSeq(call.endpoint, 1, j))
                /\ wire.url = b \o "/" \o e
                /\ call.endpoint \in {"markets", "/markets"} =>
                      wire.url = b \o "/markets"

C15_Witness ==
    /\ pc = "http"
    /\ op = "make_api_request"
    /\ config.api_url = "https://gamma-api.polymarket.com//"
    /\ call.endpoint = "/markets"
    /\ wire.url = "https://gamma-api.polymarket.com/markets"

StatusFlags == {"active", "closed", "archived"}

\* C17: when get_markets is called with a recognised status, the flag that
\* status names is true in the outgoing query parameters whatever value the
\* caller passed for it, and the two other flags are forwarded as passed
\* (absent when unset).
C17_StatusOverwritesFlag ==
    (pc = "http" /\ ToolOf(op) = "get_markets") =>
        \A f \in FlagNamedByStatus(args.status) :
            /\ HasKey(call.params.v, f)
            /\ Get(call.params.v, f) = PyBool(TRUE)
            /\ \A g \in StatusFlags \ {f} :
                  IF args[g] = PyNone THEN ~HasKey(call.params.v, g)
                  ELSE /\ HasKey(call.params.v, g)
                       /\ Get(call.params.v, g) = args[g]

C17_Witness ==
    /\ pc = "http"
    /\ op = "get_markets"
    /\ args.status = PyStr("OPEN")
    /\ args.active = PyBool(FALSE)
    /\ args.closed = PyBool(FALSE)
    /\ args.archived = PyNone
    /\ call.params = PyDict(<<Entry("active", PyBool(TRUE)),
                              Entry("closed", PyBool(FALSE))>>)

ErrorTools == {"get_market_by_id", "get_event_by_id", "get_order_book"}

C19_RelatedTagsNeedsTagId ==
    ListingPending =>
        /\ HasKey(call.params.v, "related_tags") => HasKey(call.params.v, "tag_id")
        /\ args.tag_id = PyNone => ~HasKey(call.params.v, "related_tags")
        /\ (ToolOf(op) = "get_events" /\ SuppliedNonEmpty(args.tag)) =>
              ~HasKey(call.params.v, "related_tags")
        /\ (/\ args.tag_id # PyNone
            /\ args.related_tags # PyNone
            /\ ToolOf(op) = "get_events" => ~SuppliedNonEmpty(args.tag))
           => Get(call.params.v, "related_tags") = args.related_tags

C19_Witness ==
    /\ pc = "http"
    /\ op = "get_markets"
    /\ args.related_tags = PyBool(TRUE)
    /\ args.tag_id = PyNone
    /\ call.params = PyDict(<<>>)

\* C20: under every interleaving of concurrent invocations, the request of
\* each invocation is the one its own arguments give and its result the one
\* its own upstream answer gives, as when it runs alone.
C20_NoInterference ==
    \A i \in TaskIds :
        /\ tpc[i] \in {"http", "done"} =>
              LET c == CallOf(tentry[i], targs[i])
              IN  /\ twire[i].url = Url(config.api_url, c.endpoint)
                  /\ twire[i].query = QueryEntries(ParamsOrEmpty(c.params))
                  /\ twire[i] = ExecStart(config, c).wire
        /\ tpc[i] = "done" =>
              toutcome[i] = EntryOutcome(tentry[i], ExecFinish(tanswer[i]))

C20_Witness ==
    /\ tpc[1] = "done"
    /\ tentry[1] = "get_markets"
    /\ tanswer[1] = Response(404, NotJson)
    /\ toutcome[1] = Return(PyDict(<<Entry("markets", PyList(<<>>))>>))
    /\ tpc[2] = "done"
    /\ tentry[2] = "get_markets"
    /\ twire[2].query = <<<<"slug", "s1">>, <<"slug", "s2">>>>
    /\ tanswer[2] = Response(200, SampleBodies[1])
    /\ toutcome[2] = Return(PyDict(<<Entry("markets", PyList(<<SampleMarket>>))>>))

\* The configuration that differs from cfg in the authentication toggle only.
ToggleAuth(cfg) == [cfg EXCEPT !.requires_auth = ~cfg.requires_auth]

\* C21: every request sent has exactly the header Content-Type:
\* application/json, and it is the request (URL, headers, query, body) that
\* the same call sends under the configuration with requires_auth flipped:
\* its parts are given by api_url and the call alone.
C21_AuthToggleHasNoEffect ==
    pc = "http" =>
        /\ wire.headers = {<<"Content-Type", "application/json">>}
        /\ wire.url = Url(config.api_url, call.endpoint)
        /\ wire.query = QueryEntries(ParamsOrEmpty(call.params))
        /\ wire.body = (IF call.method = "POST" THEN call.data ELSE PyNone)
        /\ ExecStart(ToggleAuth(config), call).sent
        /\ wire = ExecStart(ToggleAuth(config), call).wire

C21_Witness ==
    /\ pc = "http"
    /\ op = "make_api_request"
    /\ config.requires_auth
    /\ call.method = "POST"
    /\ call.data = PyDict(<<Entry("side", PyStr("BUY"))>>)
    /\ wire.body = call.data
    /\ wire.headers = {<<"Content-Type", "application/json">>}

====
